---- MODULE Spec2Model ----
(***************************************************************************)
(* Model of src/index.js: the in-memory file tree (VirtualEntries with its *)
(* two indices, Directory, File) and the mock Filesystem whose spies look  *)
(* paths up in it.                                                         *)
(*                                                                         *)
(* A JavaScript string is a sequence of one-character strings, so that     *)
(* String.replace(SEP, '/') and path.resolve are computed character by     *)
(* character.  path is node's POSIX implementation: '/' is the only        *)
(* separator and a backslash is an ordinary character.                     *)
(* A JavaScript value is a record [t, s, l]: t its type, s its characters  *)
(* (string), l its elements (array of strings).                            *)
(***************************************************************************)
EXTENDS Integers, Sequences, FiniteSets, TLC

VARIABLES
  heap,          \* the Directory and File objects, by identity (1..Len(heap))
  entries,       \* VirtualEntries._entries of each tree: absolute path -> object
  files,         \* VirtualEntries._files of each tree: absolute path -> object
  thisEntries,   \* Filesystem._entries: the tree given to the constructor
  boundEntries,  \* the `entries` captured by the spies of the last resetSpies
  call,          \* the most recent call, as the sinon spies record it
  prevWrite,     \* the successful write call that came right before `call`, if any
  added,         \* history: the add calls, [t, ids] in call order
  walked,        \* history: the _add invocations, [t, p, e] in call order
  kept,          \* a value the harness kept from an earlier call, to compare later
  rebound        \* history: the tree of the last resetSpies(tree), 0 before any

vars == <<heap, entries, files, thisEntries, boundEntries, call, prevWrite, added, walked,
          kept, rebound>>

----------------------------------------------------------------------------
(* Bounds of the model *)

MaxObjs == 2     \* entries the harness creates with createFile / createDir
MaxAdds == 2     \* add calls (constructor seeding included)

\* process.cwd(): the root every name resolves against
Cwd == <<"/", "r">>

\* names the harness gives to entries
Names == { <<"a">>, <<"b">>, <<".">> }

\* path arguments the harness passes to the operations
PathArgs == { <<"a">>, <<"a", "\\", "b">>, <<".">> }

----------------------------------------------------------------------------
(* JavaScript values *)

Undef == [t |-> "undefined", s |-> <<>>, l |-> <<>>]
Str(s) == [t |-> "string", s |-> s, l |-> <<>>]
Arr(l) == [t |-> "array", s |-> <<>>, l |-> l]
Bool(b) == [t |-> "boolean", s |-> IF b THEN <<"1">> ELSE <<>>, l |-> <<>>]
\* the object statSync returns and stat passes on: isDirectory() closes over path
Stats(p) == [t |-> "stats", s |-> p, l |-> <<>>]
\* a plain object { k1: n1, ... }: l lists each key followed by its value, a
\* number written in decimal
Obj(l) == [t |-> "object", s |-> <<>>, l |-> l]

\* content arguments of createFile
CreateArgs == { Undef, Str(<<"h">>) }
\* content arguments of writeFile / writeFileSync
WriteArgs == { Str(<<"X">>), Str(<<>>) }
\* { k: 1 }
ObjK1 == Obj(<< <<"k">>, <<"1">> >>)
\* content arguments of createFile, a structured record and {} among them
ContentArgs == { Undef, Str(<<"h">>), ObjK1, Obj(<<>>) }
\* values passed to writeFile / writeFileSync / setContent, not all strings
ValueArgs == { Str(<<"X">>), ObjK1 }

----------------------------------------------------------------------------
(* Strings and paths *)

\* name.replace(SEP, '/') with SEP = /\\/g
ReplaceSep(s) == [i \in 1..Len(s) |-> IF s[i] = "\\" THEN "/" ELSE s[i]]

RECURSIVE SplitFrom(_, _, _)
SplitFrom(s, i, cur) ==
  IF i > Len(s) THEN <<cur>>
  ELSE IF s[i] = "/" THEN <<cur>> \o SplitFrom(s, i + 1, <<>>)
  ELSE SplitFrom(s, i + 1, Append(cur, s[i]))

\* s.split('/')
Split(s) == SplitFrom(s, 1, <<>>)

RECURSIVE NormSegs(_, _, _)
NormSegs(segs, i, stack) ==
  IF i > Len(segs) THEN stack
  ELSE IF segs[i] = <<>> \/ segs[i] = <<".">> THEN NormSegs(segs, i + 1, stack)
  ELSE IF segs[i] = <<".", ".">>
    THEN NormSegs(segs, i + 1,
                  IF Len(stack) = 0 THEN stack ELSE SubSeq(stack, 1, Len(stack) - 1))
  ELSE NormSegs(segs, i + 1, Append(stack, segs[i]))

RECURSIVE JoinSegs(_, _)
JoinSegs(stack, i) ==
  IF i > Len(stack) THEN <<>> ELSE <<"/">> \o stack[i] \o JoinSegs(stack, i + 1)

\* path.resolve(from, to) for an absolute `from`: `to` replaces `from` when it is
\* absolute, is joined to it otherwise; empty, '.' and '..' segments are resolved
PathResolve(from, to) ==
  LET joined == IF Len(to) > 0 /\ to[1] = "/" THEN to
                ELSE IF Len(to) = 0 THEN from
                ELSE from \o <<"/">> \o to
      stack == NormSegs(Split(joined), 1, <<>>)
  IN IF Len(stack) = 0 THEN <<"/">> ELSE JoinSegs(stack, 1)

\* this._root = process.cwd().replace(SEP, '/')
Root == ReplaceSep(Cwd)

----------------------------------------------------------------------------
(* Entry, Directory, File *)

Ids == 1..Len(heap)

isFile(h, e) == h[e].kind = "File"
isDirectory(h, e) == h[e].kind = "Directory"
getName(h, e) == h[e].name
getContent(h, e) == h[e].content
\* Directory.prototype.getEntries
getEntries(h, e) == h[e].kids

\* an element of Directory._entries: an Entry, or whatever else was appended
Kid(e) == [arr |-> FALSE, ids |-> <<e>>]
ArrKid(ids) == [arr |-> TRUE, ids |-> ids]

RECURSIVE KidsOf(_, _)
KidsOf(ids, i) == IF i > Len(ids) THEN <<>> ELSE <<Kid(ids[i])>> \o KidsOf(ids, i + 1)

\* new Directory([name, e1, ..., en])
NewDirectory(name, ids) ==
  [kind |-> "Directory", name |-> name, kids |-> KidsOf(ids, 1), content |-> Undef]

RECURSIVE Members(_, _)
\* the members of JSON.stringify(o) from property i on: "key":value, joined
\* by commas
Members(l, i) ==
  IF i > Len(l) THEN <<>>
  ELSE (IF i > 1 THEN <<",">> ELSE <<>>)
       \o <<"\"">> \o l[i] \o <<"\"">> \o <<":">> \o l[i + 1] \o Members(l, i + 2)

\* JSON.stringify that leaves the keys unquoted
StringifyBare(o) ==
  <<"{">> \o (IF Len(o.l) = 0 THEN <<>> ELSE o.l[1] \o <<":">> \o o.l[2]) \o <<"}">>

\* JSON.stringify(o) of a plain object with number values
Stringify(o) == <<"{">> \o Members(o.l, 1) \o <<"}">>

\* _createContent without the [object Object] test
createContentRaw(content) ==
  IF content.t = "undefined" \/ (content.t = "string" /\ Len(content.s) = 0)
    THEN Str(<<>>)
  ELSE content

\* File.prototype._createContent
createContent(content) ==
  IF content.t = "object" THEN Str(Stringify(content))
  ELSE IF content.t = "undefined" \/ (content.t = "string" /\ Len(content.s) = 0)
    THEN Str(<<>>)
  ELSE content

\* new File([name, content])
NewFile(name, content) ==
  [kind |-> "File", name |-> name, kids |-> <<>>, content |-> createContent(content)]

\* Directory.prototype.addChild: `args` is the argument list; concat(args) appends
\* each argument as one element, an argument that is an array included
addChild(h, d, args) == [h EXCEPT ![d].kids = @ \o args]

\* what an array obtained from getEntries() of Directory k.d holds once
\* d.addChild(args) has run: `this._entries = this._entries.concat(args)` builds
\* a new array and assigns it, the array that was _entries stays as it was
childrenAfterAddChild(k, d, args) == k

\* setContent that assigns to a field getContent does not read
setContentElsewhere(h, e, content) == h

\* File.prototype.setContent
setContent(h, e, content) == [h EXCEPT ![e].content = content]

----------------------------------------------------------------------------
(* VirtualEntries *)

\* obj[key] = value
Put(obj, key, value) ==
  [k \in DOMAIN obj \cup {key} |-> IF k = key THEN value ELSE obj[k]]

\* VirtualEntries.prototype._add, on st = [e |-> _entries, f |-> _files,
\* w |-> the invocations so far, err |-> a TypeError was thrown]
RECURSIVE add_(_, _, _, _)
RECURSIVE addContent(_, _, _, _, _)
\* _add without the `in` test: the last insertion at a path wins
add_Overwriting(h, st, name, entry) ==
  LET st1 == [st EXCEPT !.e = Put(@, name, entry),
                        !.w = Append(@, [p |-> name, e |-> entry])]
  IN IF isDirectory(h, entry)
       THEN addContent(h, st1, name, getEntries(h, entry), 1)
       ELSE [st1 EXCEPT !.f = Put(@, name, entry)]

\* _add without the else: every entry is put into _files
add_FilesAll(h, st, name, entry) ==
  LET st1 == [st EXCEPT !.e = IF name \in DOMAIN st.e THEN @ ELSE Put(@, name, entry),
                        !.f = Put(@, name, entry),
                        !.w = Append(@, [p |-> name, e |-> entry])]
  IN IF isDirectory(h, entry)
       THEN addContent(h, st1, name, getEntries(h, entry), 1)
       ELSE st1

add_(h, st, name, entry) ==
  LET st1 == [st EXCEPT !.e = IF name \in DOMAIN st.e THEN @ ELSE Put(@, name, entry),
                        !.w = Append(@, [p |-> name, e |-> entry])]
  IN IF isDirectory(h, entry)
       THEN addContent(h, st1, name, getEntries(h, entry), 1)
       ELSE [st1 EXCEPT !.f = Put(@, name, entry)]

\* the loop of _add over content = entry.getEntries()
addContent(h, st, name, content, i) ==
  IF i > Len(content) \/ st.err THEN st
  ELSE IF content[i].arr THEN [st EXCEPT !.err = TRUE]   \* no getName on an array
  ELSE LET next == name \o <<"/">> \o getName(h, content[i].ids[1])
       IN addContent(h, add_(h, st, PathResolve(Root, next), content[i].ids[1]),
                     name, content, i + 1)

\* the loop of VirtualEntries.prototype.add over entries
RECURSIVE addLoop(_, _, _, _)
addLoop(h, st, ents, i) ==
  IF i > Len(ents) \/ st.err THEN st
  ELSE addLoop(h, add_(h, st, PathResolve(Root, getName(h, ents[i])), ents[i]),
               ents, i + 1)

\* VirtualEntries.prototype.getRealpath
getRealpathOfEntry(name) ==
  IF PathResolve(Root, ReplaceSep(name)) \in DOMAIN entries[boundEntries]
    THEN PathResolve(Root, ReplaceSep(name))
    ELSE PathResolve(Root, name)

getRealpath(name) == PathResolve(Root, name)

\* VirtualEntries.prototype.hasEntry
hasEntry(t, name) == PathResolve(Root, ReplaceSep(name)) \in DOMAIN entries[t]

\* VirtualEntries.prototype.getEntry: ok is FALSE when the assertion fails
getEntry(t, name) ==
  LET resolved == PathResolve(Root, ReplaceSep(name))
  IN IF resolved \in DOMAIN entries[t]
       THEN [ok |-> TRUE, ent |-> entries[t][resolved]]
       ELSE [ok |-> FALSE, ent |-> 0]

\* VirtualEntries.prototype.getFiles
getFiles(t) == files[t]

----------------------------------------------------------------------------
(* Filesystem: the functions resetSpies wraps in sinon spies.  Each yields  *)
(* how the call ends: outcome "return" or "throw", err the failure (the     *)
(* assertion of getEntry: NotFound; the isFile / isDirectory assertion:     *)
(* WrongKind; a TypeError of the runtime), result the value returned,       *)
(* cbCount and cbArg the invocations of the callback, h the heap after it.  *)

Thrown(h, err) ==
  [outcome |-> "throw", err |-> err, result |-> Undef, cbCount |-> 0, cbArg |-> Undef,
   h |-> h]
Returned(h, v) ==
  [outcome |-> "return", err |-> "", result |-> v, cbCount |-> 0, cbArg |-> Undef,
   h |-> h]
\* cb(v) as the last statement: a cb that is no function is a TypeError
CalledBack(h, cb, v) ==
  IF cb THEN [outcome |-> "return", err |-> "", result |-> Undef, cbCount |-> 1,
              cbArg |-> v, h |-> h]
  ELSE Thrown(h, "TypeError")

RECURSIVE KidNames(_, _, _)
KidNames(h, kids, i) ==
  IF i > Len(kids) THEN <<>> ELSE <<getName(h, kids[i].ids[1])>> \o KidNames(h, kids, i + 1)

\* ent.getEntries().map(function(ent) { return ent.getName(); })
MapNames(h, ent) ==
  IF \E i \in 1..Len(getEntries(h, ent)) : getEntries(h, ent)[i].arr
    THEN [ok |-> FALSE, v |-> Undef]       \* an array has no getName
    ELSE [ok |-> TRUE, v |-> Arr(KidNames(h, getEntries(h, ent), 1))]

mkdirSync(h) == Returned(h, Undef)

statSync(h, path) == Returned(h, Stats(path))

stat(h, path, cb) == CalledBack(h, cb, Stats(path))

\* the isDirectory of the object statSync returns and stat passes on
statsIsDirectory(h, t, path) ==
  LET g == getEntry(t, path)
  IN IF ~g.ok THEN Thrown(h, "NotFound") ELSE Returned(h, Bool(isDirectory(h, g.ent)))

\* the first function assigned to this.readdirSync
readdirSyncReturning(h, t, path) ==
  LET g == getEntry(t, path)
  IN IF ~g.ok THEN Thrown(h, "NotFound")
     ELSE IF ~isDirectory(h, g.ent) THEN Thrown(h, "WrongKind")
     ELSE IF ~MapNames(h, g.ent).ok THEN Thrown(h, "TypeError")
     ELSE Returned(h, MapNames(h, g.ent).v)

\* the second function assigned to this.readdirSync
readdirSyncCallingBack(h, t, path, cb) ==
  LET g == getEntry(t, path)
  IN IF ~g.ok THEN Thrown(h, "NotFound")
     ELSE IF ~isDirectory(h, g.ent) THEN Thrown(h, "WrongKind")
     ELSE IF ~MapNames(h, g.ent).ok THEN Thrown(h, "TypeError")
     ELSE CalledBack(h, cb, MapNames(h, g.ent).v)

realpathSync(h, path) == Returned(h, Str(getRealpath(path)))

realpath(h, path, cb) == CalledBack(h, cb, Str(getRealpath(path)))

readFileSync(h, t, path) ==
  LET g == getEntry(t, path)
  IN IF ~g.ok THEN Thrown(h, "NotFound")
     ELSE IF ~isFile(h, g.ent) THEN Thrown(h, "WrongKind")
     ELSE Returned(h, getContent(h, g.ent))

readFile(h, t, path, cb) ==
  LET g == getEntry(t, path)
  IN IF ~g.ok THEN Thrown(h, "NotFound")
     ELSE IF ~isFile(h, g.ent) THEN Thrown(h, "WrongKind")
     ELSE CalledBack(h, cb, getContent(h, g.ent))

\* writeFileSync that stores the content before it asserts the kind
writeFileSyncEager(h, t, path, content) ==
  LET g == getEntry(t, path)
  IN IF ~g.ok THEN Thrown(h, "NotFound")
     ELSE IF ~isFile(h, g.ent) THEN Thrown(setContent(h, g.ent, content), "WrongKind")
     ELSE Returned(setContent(h, g.ent, content), Undef)

writeFileSync(h, t, path, content) ==
  LET g == getEntry(t, path)
  IN IF ~g.ok THEN Thrown(h, "NotFound")
     ELSE IF ~isFile(h, g.ent) THEN Thrown(h, "WrongKind")
     ELSE Returned(setContent(h, g.ent, content), Undef)

\* cb(ent.setContent(content)): setContent runs first and returns undefined
writeFile(h, t, path, content, cb) ==
  LET g == getEntry(t, path)
  IN IF ~g.ok THEN Thrown(h, "NotFound")
     ELSE IF ~isFile(h, g.ent) THEN Thrown(h, "WrongKind")
     ELSE CalledBack(setContent(h, g.ent, content), cb, Undef)

\* the assignments of resetSpies, in order: property, function assigned
Assignments ==
  << <<"mkdirSync", "mkdirSync">>,
     <<"statSync", "statSync">>,
     <<"stat", "stat">>,
     <<"readdirSync", "readdirSyncReturning">>,
     <<"readdirSync", "readdirSyncCallingBack">>,
     <<"realpathSync", "realpathSync">>,
     <<"realpath", "realpath">>,
     <<"readFileSync", "readFileSync">>,
     <<"readFile", "readFile">>,
     <<"writeFileSync", "writeFileSync">>,
     <<"writeFile", "writeFile">> >>

RECURSIVE Assigned(_, _)
Assigned(as, i) ==
  IF i = 0 THEN [m \in {} |-> ""] ELSE Put(Assigned(as, i - 1), as[i][1], as[i][2])

\* the properties of a Filesystem after resetSpies: a later assignment to a
\* property replaces an earlier one
Spies == Assigned(Assignments, Len(Assignments))

\* fs[m](path, ...): a property that was never assigned is no function
Invoke(m, h, t, path, content, cb) ==
  IF m \notin DOMAIN Spies THEN Thrown(h, "TypeError")
  ELSE CASE Spies[m] = "mkdirSync" -> mkdirSync(h)
         [] Spies[m] = "statSync" -> statSync(h, path)
         [] Spies[m] = "stat" -> stat(h, path, cb)
         [] Spies[m] = "readdirSyncReturning" -> readdirSyncReturning(h, t, path)
         [] Spies[m] = "readdirSyncCallingBack" -> readdirSyncCallingBack(h, t, path, cb)
         [] Spies[m] = "realpathSync" -> realpathSync(h, path)
         [] Spies[m] = "realpath" -> realpath(h, path, cb)
         [] Spies[m] = "readFileSync" -> readFileSync(h, t, path)
         [] Spies[m] = "readFile" -> readFile(h, t, path, cb)
         [] Spies[m] = "writeFileSync" -> writeFileSync(h, t, path, content)
         [] Spies[m] = "writeFile" -> writeFile(h, t, path, content, cb)

----------------------------------------------------------------------------
(* The harness: what it constructs and calls *)

\* a call that ended normally and is no call of a spy
Made(op) ==
  [op |-> op, path |-> <<>>, arg |-> Undef, cb |-> FALSE, outcome |-> "return",
   err |-> "", result |-> Undef, cbCount |-> 0, cbArg |-> Undef]

NoWrite == [some |-> FALSE, path |-> <<>>, arg |-> Undef]

\* the harness has kept nothing
NoKept == [op |-> "", path |-> <<>>, v |-> Undef, d |-> 0, kids |-> <<>>, adds |-> 0]

Writes == {"writeFile", "writeFileSync"}
Reads == {"readFile", "readFileSync"}

Trees == DOMAIN entries
\* the root Directory of tree t, module.exports.createDir(this._root): the
\* constructors run first, so it is object t of the heap
RootOf(t) == t
\* the harness holds no reference to the roots
RootIds == {RootOf(t) : t \in Trees}
\* the entries the harness created
UserIds == Ids \ RootIds

\* the ids held by the child sequence of d, those inside arrays included
KidIds(h, d) ==
  {getEntries(h, d)[i].ids[j] :
     <<i, j>> \in {x \in (1..Len(getEntries(h, d))) \X (1..Len(heap)) :
                     x[2] <= Len(getEntries(h, d)[x[1]].ids)}}

\* the entries the harness has not yet put into a Directory or passed to add:
\* it attaches an entry once, so the entries form a tree
FreeIds == {e \in UserIds : \A d \in Ids : e \notin KidIds(heap, d)}

\* the sequences of distinct elements of S, of lo..hi elements
SeqsOf(S, lo, hi) ==
  {q \in UNION {[1..k -> S] : k \in lo..hi} : \A i, j \in 1..Len(q) : q[i] = q[j] => i = j}

RECURSIVE Reach(_, _)
\* the entries reachable from e through child sequences, e included
Reach(h, e) == {e} \cup UNION {Reach(h, k) : k \in KidIds(h, e)}

\* the state after new VirtualEntries() and new Filesystem(entries), under
\* process.cwd(), the harness having created the entries objs
InitWith(objs) ==
  /\ heap = << NewDirectory(Root, <<>>) >> \o objs
  /\ entries = [t \in {1} |-> Put([p \in {} |-> 0], Root, 1)]
  /\ files = [t \in {1} |-> [p \in {} |-> 0]]
  /\ thisEntries = 1
  /\ boundEntries = 1
  /\ call = Made("harness")
  /\ prevWrite = NoWrite
  /\ added = <<>>
  /\ walked = <<>>
  /\ kept = NoKept
  /\ rebound = 0

Init == InitWith(<<>>)

\* createFile(name, content)
CreateFile(name, content) ==
  /\ Cardinality(UserIds) < MaxObjs
  /\ heap' = Append(heap, NewFile(name, content))
  /\ call' = [Made("createFile") EXCEPT !.path = name, !.arg = content]
  /\ prevWrite' = NoWrite
  /\ UNCHANGED <<entries, files, thisEntries, boundEntries, added, walked, kept, rebound>>

\* createDir(name, e1, ..., en)
CreateDir(name, ids) ==
  /\ Cardinality(UserIds) < MaxObjs
  /\ heap' = Append(heap, NewDirectory(name, ids))
  /\ call' = Made("harness")
  /\ prevWrite' = NoWrite
  /\ UNCHANGED <<entries, files, thisEntries, boundEntries, added, walked, kept, rebound>>

\* d.addChild(e) on a Directory the harness created; e lies below d, not above
\* it (a child sequence that loops would never be walked to its end)
AddChild(d, e) ==
  /\ isDirectory(heap, d)
  /\ d \notin Reach(heap, e)
  /\ heap' = addChild(heap, d, <<Kid(e)>>)
  /\ kept' = childrenAfterAddChild(kept, d, <<Kid(e)>>)
  /\ call' = Made("harness")
  /\ prevWrite' = NoWrite
  /\ UNCHANGED <<entries, files, thisEntries, boundEntries, added, walked, rebound>>

RECURSIVE Tagged(_, _, _)
Tagged(t, w, i) ==
  IF i > Len(w) THEN <<>>
  ELSE <<[t |-> t, p |-> w[i].p, e |-> w[i].e]>> \o Tagged(t, w, i + 1)

\* VirtualEntries.prototype.add (the constructor's add(opt_entries) included):
\* arg is one entry or an array of entries
Add(t, arg) ==
  LET ents == IF arg.arr THEN arg.ids ELSE <<arg.ids[1]>>
      h1 == addChild(heap, entries[t][Root], <<ArrKid(ents)>>)   \* one argument
      st == addLoop(h1, [e |-> entries[t], f |-> files[t], w |-> <<>>, err |-> FALSE],
                    ents, 1)
  IN /\ Len(added) < MaxAdds
     /\ heap' = h1
     /\ entries' = [entries EXCEPT ![t] = st.e]
     /\ files' = [files EXCEPT ![t] = st.f]
     /\ added' = Append(added, [t |-> t, ids |-> ents])
     /\ walked' = walked \o Tagged(t, st.w, 1)
     /\ call' = IF st.err THEN [Made("add") EXCEPT !.outcome = "throw", !.err = "TypeError"]
                ELSE Made("add")
     /\ prevWrite' = NoWrite
     /\ UNCHANGED <<thisEntries, boundEntries, kept, rebound>>

\* fs[m](path, ...) on the Filesystem: cb tells whether a callback is passed
Do(m, path, content, cb) ==
  LET r == Invoke(m, heap, boundEntries, path, content, cb)
  IN /\ heap' = r.h
     /\ call' = [op |-> m, path |-> path, arg |-> content, cb |-> cb,
                 outcome |-> r.outcome, err |-> r.err, result |-> r.result,
                 cbCount |-> r.cbCount, cbArg |-> r.cbArg]
     /\ prevWrite' = IF m \in Reads /\ call.op \in Writes /\ call.outcome = "return"
                       THEN [some |-> TRUE, path |-> call.path, arg |-> call.arg]
                       ELSE NoWrite
     /\ UNCHANGED <<entries, files, thisEntries, boundEntries, added, walked, kept, rebound>>

MkdirSync(path) == Do("mkdirSync", path, Undef, FALSE)
StatSync(path) == Do("statSync", path, Undef, FALSE)
Stat(path) == Do("stat", path, Undef, TRUE)
ReaddirSync(path, cb) == Do("readdirSync", path, Undef, cb)
Readdir(path) == Do("readdir", path, Undef, TRUE)
RealpathSync(path) == Do("realpathSync", path, Undef, FALSE)
Realpath(path) == Do("realpath", path, Undef, TRUE)
ReadFileSync(path) == Do("readFileSync", path, Undef, FALSE)
ReadFile(path) == Do("readFile", path, Undef, TRUE)
WriteFileSync(path, content) == Do("writeFileSync", path, content, FALSE)
WriteFile(path, content) == Do("writeFile", path, content, TRUE)

\* isDirectory() of a stats object obtained for path
IsDirectory(path) ==
  LET r == statsIsDirectory(heap, boundEntries, path)
  IN /\ call' = [op |-> "isDirectory", path |-> path, arg |-> Undef, cb |-> FALSE,
                 outcome |-> r.outcome, err |-> r.err, result |-> r.result,
                 cbCount |-> r.cbCount, cbArg |-> r.cbArg]
     /\ prevWrite' = NoWrite
     /\ UNCHANGED <<heap, entries, files, thisEntries, boundEntries, added, walked, kept,
                    rebound>>

----------------------------------------------------------------------------
(* Spec: the harness builds a tree: it creates entries, nests them and adds *)
(* them, in any order.                                                      *)

Next ==
  \/ \E name \in Names, content \in CreateArgs : CreateFile(name, content)
  \/ \E name \in Names, ids \in SeqsOf(FreeIds, 0, Cardinality(FreeIds)) : CreateDir(name, ids)
  \/ \E d \in UserIds, e \in FreeIds : AddChild(d, e)
  \/ \E t \in Trees, e \in FreeIds : Add(t, Kid(e))
  \/ \E t \in Trees, ids \in SeqsOf(FreeIds, 0, Cardinality(FreeIds)) : Add(t, ArrKid(ids))

Spec == Init /\ [][Next]_vars

----------------------------------------------------------------------------
(* SpecOps: the harness has created the entries of one fixture; it adds     *)
(* them and calls the operations of the Filesystem, in any order.           *)

\* createFile("a", "h")
FixFile == << NewFile(<<"a">>, Str(<<"h">>)) >>
\* createDir("a", createFile("b", "h"))
FixDir == << NewFile(<<"b">>, Str(<<"h">>)), NewDirectory(<<"a">>, <<2>>) >>
\* createFile("a", "h") and createFile("a")
FixTwice == << NewFile(<<"a">>, Str(<<"h">>)), NewFile(<<"a">>, Undef) >>

Fixtures == { <<>>, FixFile, FixDir, FixTwice }

InitOps == \E objs \in Fixtures : InitWith(objs)

NextOps ==
  \/ \E t \in Trees, e \in FreeIds : Add(t, Kid(e))
  \/ \E t \in Trees, ids \in SeqsOf(FreeIds, 1, Cardinality(FreeIds)) : Add(t, ArrKid(ids))
  \/ \E path \in PathArgs : MkdirSync(path)
  \/ \E path \in PathArgs : StatSync(path)
  \/ \E path \in PathArgs : Stat(path)
  \/ \E path \in PathArgs : IsDirectory(path)
  \/ \E path \in PathArgs, cb \in BOOLEAN : ReaddirSync(path, cb)
  \/ \E path \in PathArgs : Readdir(path)
  \/ \E path \in PathArgs : RealpathSync(path)
  \/ \E path \in PathArgs : Realpath(path)
  \/ \E path \in PathArgs : ReadFileSync(path)
  \/ \E path \in PathArgs : ReadFile(path)
  \/ \E path \in PathArgs, content \in WriteArgs : WriteFileSync(path, content)
  \/ \E path \in PathArgs, content \in WriteArgs : WriteFile(path, content)

SpecOps == InitOps /\ [][NextOps]_vars

----------------------------------------------------------------------------
(* SpecRoot: the harness builds a tree as in Spec, of entries whose names   *)
(* may resolve to the root path: the empty name and ".".                    *)

RootNames == { <<>>, <<".">>, <<"a">> }

NextRoot ==
  \/ \E name \in RootNames, content \in CreateArgs : CreateFile(name, content)
  \/ \E name \in RootNames, ids \in SeqsOf(FreeIds, 0, Cardinality(FreeIds)) :
       CreateDir(name, ids)
  \/ \E d \in UserIds, e \in FreeIds : AddChild(d, e)
  \/ \E t \in Trees, e \in FreeIds : Add(t, Kid(e))
  \/ \E t \in Trees, ids \in SeqsOf(FreeIds, 0, Cardinality(FreeIds)) : Add(t, ArrKid(ids))

SpecRoot == Init /\ [][NextRoot]_vars

----------------------------------------------------------------------------
(* SpecContent: the harness creates Files from strings, from nothing and    *)
(* from structured records, adds them, and replaces and reads their content *)
(* with values of any kind.                                                 *)

\* e.setContent(content) on a File the harness created
SetContent(e, content) ==
  /\ isFile(heap, e)
  /\ heap' = setContent(heap, e, content)
  /\ call' = [Made("setContent") EXCEPT !.arg = content]
  /\ prevWrite' = NoWrite
  /\ UNCHANGED <<entries, files, thisEntries, boundEntries, added, walked, kept, rebound>>

NextContent ==
  \/ \E content \in ContentArgs : CreateFile(<<"a">>, content)
  \/ \E t \in Trees, e \in FreeIds : Add(t, Kid(e))
  \/ \E e \in UserIds, content \in ValueArgs : SetContent(e, content)
  \/ \E content \in ValueArgs : WriteFileSync(<<"a">>, content)
  \/ \E content \in ValueArgs : WriteFile(<<"a">>, content)
  \/ ReadFileSync(<<"a">>)
  \/ ReadFile(<<"a">>)

SpecContent == Init /\ [][NextContent]_vars

----------------------------------------------------------------------------
(* SpecView: the harness builds a tree as in Spec and holds on to the array *)
(* a Directory's getEntries() returned.                                     *)

\* d.getEntries() on a Directory the harness created: the harness keeps the
\* array it returns
GetEntries(d) ==
  /\ isDirectory(heap, d)
  /\ kept' = [NoKept EXCEPT !.op = "children", !.d = d, !.kids = getEntries(heap, d)]
  /\ call' = Made("getEntries")
  /\ prevWrite' = NoWrite
  /\ UNCHANGED <<heap, entries, files, thisEntries, boundEntries, added, walked, rebound>>

NextView ==
  \/ \E name \in {<<"a">>, <<"b">>} : CreateFile(name, Str(<<"h">>))
  \/ \E ids \in SeqsOf(FreeIds, 0, Cardinality(FreeIds)) : CreateDir(<<"a">>, ids)
  \/ \E d \in UserIds, e \in FreeIds : AddChild(d, e)
  \/ \E d \in UserIds : GetEntries(d)
  \/ \E t \in Trees, e \in FreeIds : Add(t, Kid(e))

SpecView == Init /\ [][NextView]_vars

----------------------------------------------------------------------------
(* SpecShadow: the harness has created a File and a Directory of one name,  *)
(* the Directory holding a File; it adds them and calls stat, readFile,     *)
(* readdir and writeFile.                                                   *)

\* createFile("a", "h") and createDir("a", createFile("b", "h"))
FixShadow ==
  << NewFile(<<"a">>, Str(<<"h">>)), NewFile(<<"b">>, Str(<<"h">>)), NewDirectory(<<"a">>, <<3>>) >>

InitShadow == \E objs \in {FixDir, FixShadow} : InitWith(objs)

NextShadow ==
  \/ \E t \in Trees, e \in FreeIds : Add(t, Kid(e))
  \/ \E t \in Trees, ids \in SeqsOf(FreeIds, 1, Cardinality(FreeIds)) : Add(t, ArrKid(ids))
  \/ \E path \in PathArgs : StatSync(path)
  \/ \E path \in PathArgs : ReadFileSync(path)
  \/ \E path \in PathArgs : ReaddirSync(path, TRUE)
  \/ \E path \in PathArgs : IsDirectory(path)
  \/ \E path \in PathArgs : WriteFileSync(path, Str(<<"X">>))

SpecShadow == InitShadow /\ [][NextShadow]_vars

----------------------------------------------------------------------------
(* SpecRebind: the harness has made two trees and a Filesystem on the       *)
(* first; it adds Files to either tree, rebinds the Filesystem with         *)
(* resetSpies and reads and writes through it.                              *)

\* the tree the spies close over after resetSpies(arg), arg = 0 when no tree is
\* passed: entries = (entries || this._entries)
resetSpiesEntries(arg, constructed) == IF arg = 0 THEN constructed ELSE arg

\* fs.resetSpies(arg): this._entries is not assigned
ResetSpies(arg) ==
  /\ boundEntries' = resetSpiesEntries(arg, thisEntries)
  /\ rebound' = IF arg = 0 THEN rebound ELSE arg
  /\ call' = Made("resetSpies")
  /\ prevWrite' = NoWrite
  /\ UNCHANGED <<heap, entries, files, thisEntries, added, walked, kept>>

\* the state after new VirtualEntries() twice and new Filesystem(first tree),
\* the harness having created the entries objs
InitRebind ==
  \E objs \in {FixFile, FixTwice} :
    /\ heap = << NewDirectory(Root, <<>>), NewDirectory(Root, <<>>) >> \o objs
    /\ entries = [t \in {1, 2} |-> Put([p \in {} |-> 0], Root, t)]
    /\ files = [t \in {1, 2} |-> [p \in {} |-> 0]]
    /\ thisEntries = 1
    /\ boundEntries = 1
    /\ call = Made("harness")
    /\ prevWrite = NoWrite
    /\ added = <<>>
    /\ walked = <<>>
    /\ kept = NoKept
    /\ rebound = 0

NextRebind ==
  \/ \E t \in Trees, e \in FreeIds : Add(t, Kid(e))
  \/ \E arg \in {0} \cup Trees : ResetSpies(arg)
  \/ ReadFileSync(<<"a">>)
  \/ \E content \in WriteArgs : WriteFileSync(<<"a">>, content)

SpecRebind == InitRebind /\ [][NextRebind]_vars

----------------------------------------------------------------------------
(* SpecPure: the harness adds and nests the entries of one fixture, writes  *)
(* to Files and asks for real paths; it keeps a path it was given and asks  *)
(* again later.                                                             *)

Realpaths == {"realpath", "realpathSync"}

\* the harness keeps the path the last realpath call delivered
KeepPath ==
  /\ call.op \in Realpaths
  /\ call.outcome = "return"
  /\ kept' = [NoKept EXCEPT !.op = "realpath", !.path = call.path,
                            !.v = IF call.cb THEN call.cbArg ELSE call.result,
                            !.adds = Len(added)]
  /\ UNCHANGED <<heap, entries, files, thisEntries, boundEntries, call, prevWrite, added,
                 walked, rebound>>

\* createFile("b", "h") and createDir("a")
FixLoose == << NewFile(<<"b">>, Str(<<"h">>)), NewDirectory(<<"a">>, <<>>) >>

InitPure == \E objs \in {FixFile, FixDir, FixLoose} : InitWith(objs)

NextPure ==
  \/ \E d \in UserIds, e \in FreeIds : AddChild(d, e)
  \/ \E t \in Trees, e \in FreeIds : Add(t, Kid(e))
  \/ \E t \in Trees, ids \in SeqsOf(FreeIds, 1, Cardinality(FreeIds)) : Add(t, ArrKid(ids))
  \/ \E path \in PathArgs : WriteFileSync(path, Str(<<"X">>))
  \/ \E path \in PathArgs : WriteFile(path, Str(<<"X">>))
  \/ \E path \in PathArgs : RealpathSync(path)
  \/ \E path \in PathArgs : Realpath(path)
  \/ KeepPath

SpecPure == InitPure /\ [][NextPure]_vars

----------------------------------------------------------------------------
(* Properties *)

\* the value a call delivered: returned by a sync form, passed to the callback
\* by a callback form
Delivered == IF call.cb THEN call.cbArg ELSE call.result

\* the absolute path hasEntry and getEntry look up for a path argument
Lookup(path) == PathResolve(Root, ReplaceSep(path))

Values(m) == {m[p] : p \in DOMAIN m}

\* the File entries reachable from the root of tree t through child sequences
ReachFiles(t) == {e \in Reach(heap, RootOf(t)) : isFile(heap, e)}

\* the calls of _add that inserted at the path of walked[i], in tree walked[i].t
SamePath(i) ==
  {j \in 1..Len(walked) : walked[j].t = walked[i].t /\ walked[j].p = walked[i].p}

\* the first entry inserted at the path of walked[i]: the root Directory at the
\* root path, the entry of the earliest _add otherwise
FirstAt(i) ==
  IF walked[i].p = Root THEN RootOf(walked[i].t)
  ELSE walked[CHOOSE j \in SamePath(i) : \A k \in SamePath(i) : j <= k].e

\* C1: a readFile / readFileSync of path p that comes right after a successful
\* writeFile / writeFileSync of p with the string X succeeds and delivers X.
RoundTrip ==
  (prevWrite.some /\ call.op \in Reads /\ call.path = prevWrite.path)
    => /\ call.outcome = "return"
       /\ call.cb => call.cbCount = 1
       /\ Delivered = prevWrite.arg

\* C1 witness: X was read back from a path at which two entries were added
RoundTripSeen ==
  /\ prevWrite.some /\ call.op \in Reads /\ call.path = prevWrite.path
  /\ Delivered = Str(<<"X">>)
  /\ \E i, j \in 1..Len(walked) : i < j /\ walked[i].p = walked[j].p
                                   /\ walked[i].p = Lookup(call.path)

RECURSIVE AddedNames(_, _)
\* the names of the entries passed to add on tree t, in the order passed
AddedNames(t, i) ==
  IF i > Len(added) THEN <<>>
  ELSE (IF added[i].t = t THEN KidNames(heap, KidsOf(added[i].ids, 1), 1) ELSE <<>>)
       \o AddedNames(t, i + 1)

\* C3: readdir of the root path (the callback form the Filesystem has) delivers
\* the names of all entries passed to add, one each, in the order added.
ReaddirRootListsAdded ==
  (call.op = "readdirSync" /\ call.cb /\ Lookup(call.path) = Root)
    => /\ call.outcome = "return"
       /\ call.cbCount = 1
       /\ call.cbArg = Arr(AddedNames(boundEntries, 1))

AbsentPathFails ==
  /\ (/\ call.op \in {"readFile", "readFileSync", "writeFile", "writeFileSync",
                       "readdirSync", "stat", "statSync"}
      /\ ~hasEntry(boundEntries, call.path))
       => (call.outcome = "throw" /\ call.err = "NotFound")
  /\ (/\ call.op = "readdirSync"
      /\ hasEntry(boundEntries, call.path)
      /\ isFile(heap, getEntry(boundEntries, call.path).ent))
       => (call.outcome = "throw" /\ call.err = "WrongKind")

\* C6: the synchronous readdir, called with only the path of a Directory whose
\* children are entries, returns the sequence of their names.
SyncReaddirReturns ==
  (/\ call.op = "readdirSync" /\ ~call.cb
   /\ hasEntry(boundEntries, call.path)
   /\ isDirectory(heap, getEntry(boundEntries, call.path).ent)
   /\ MapNames(heap, getEntry(boundEntries, call.path).ent).ok)
    => /\ call.outcome = "return"
       /\ call.result = MapNames(heap, getEntry(boundEntries, call.path).ent).v

\* the target of the call passes the validation its operation makes
Validated ==
  \/ call.op \in {"stat", "realpath"}
  \/ /\ call.op \in {"readdir", "readdirSync"}
     /\ hasEntry(boundEntries, call.path)
     /\ isDirectory(heap, getEntry(boundEntries, call.path).ent)
  \/ /\ call.op \in {"readFile", "writeFile"}
     /\ hasEntry(boundEntries, call.path)
     /\ isFile(heap, getEntry(boundEntries, call.path).ent)

\* C7: a callback-form call of stat, readdir, realpath, readFile or writeFile
\* whose target passes validation has invoked its callback exactly once when
\* it returns.
CallbackOnce ==
  (call.cb /\ Validated) => (call.outcome = "return" /\ call.cbCount = 1)

\* C8: a callback-form call of stat, readdir, readFile or writeFile on a path
\* that is absent or of the wrong kind fails without invoking the callback.
FailsBeforeCallback ==
  (/\ call.cb
   /\ call.op \in {"stat", "readdirSync", "readFile", "writeFile"}
   /\ ~(Validated /\ hasEntry(boundEntries, call.path)))
    => (call.outcome = "throw" /\ call.cbCount = 0)

\* C9: a call that fails with Not-Found or Wrong-Kind leaves the objects of
\* the tree, their contents included, and both indices as they were.
FailedCallChangesNothing ==
  [][(call'.outcome = "throw" /\ call'.err \in {"NotFound", "WrongKind"})
       => UNCHANGED <<heap, entries, files>>]_vars

\* C9 witness: a writeFileSync on the path of a Directory has failed
FailedWriteSeen ==
  /\ call.op = "writeFileSync" /\ call.outcome = "throw" /\ call.err = "WrongKind"
  /\ call.path = <<"a">>

\* C10: the absolute path realpath delivers for a name is the key exists and
\* get look up for it: exists(name) holds iff that path is a key of listAll().
RealpathIsLookupKey ==
  (call.op \in {"realpath", "realpathSync"} /\ call.outcome = "return")
    => (hasEntry(boundEntries, call.path) <=> Delivered.s \in DOMAIN entries[boundEntries])

\* C11: a realpath / realpathSync call never fails and leaves the objects of
\* the tree and both indices as they were, and the path it delivers for a name
\* is the path an earlier call delivered for that name, whatever was added,
\* nested or written in between.
RealpathPure ==
  [][call'.op \in Realpaths
       => /\ call'.outcome = "return"
          /\ UNCHANGED <<heap, entries, files>>
          /\ (kept.op = "realpath" /\ kept.path = call'.path) => Delivered' = kept.v]_vars

\* C11 witness: realpath was asked again for a name that meanwhile came to
\* exist: the path kept for it was delivered before an add, and a write to
\* that name has succeeded since
RealpathAgain ==
  /\ call.op \in Realpaths
  /\ kept.op = "realpath" /\ kept.path = call.path
  /\ kept.adds < Len(added)
  /\ hasEntry(boundEntries, call.path)
  /\ \E e \in Ids : isFile(heap, e) /\ getContent(heap, e) = Str(<<"X">>)
  /\ Delivered = kept.v

\* C12: in every state, whatever was added, the root path is a key of
\* listAll() and maps to a Directory.
RootIsDirectory ==
  \A t \in Trees : /\ Root \in DOMAIN entries[t]
                    /\ isDirectory(heap, entries[t][Root])

\* C12 witness: a File with the empty name and an entry named "." were both
\* inserted at the root path
RootNamedSeen ==
  \E i, j \in 1..Len(walked) :
    /\ walked[i].p = Root /\ walked[j].p = Root
    /\ isFile(heap, walked[i].e) /\ getName(heap, walked[i].e) = <<>>
    /\ getName(heap, walked[j].e) = <<".">>

\* C13: a path that is a key of listAll() stays a key and keeps its entry
\* through every later operation (add, mkdir, writeFile and the others).
IndexKeysStable ==
  [][\A t \in Trees : \A p \in DOMAIN entries[t] :
       p \in DOMAIN entries'[t] /\ entries'[t][p] = entries[t][p]]_vars

\* C13 witness: a second entry was added at a path already mapped, a write to
\* that path has succeeded since, and the path still maps to the first entry
FirstEntryKept ==
  /\ call.op \in Writes /\ call.outcome = "return"
  /\ \E i, j \in 1..Len(walked) :
       /\ i < j /\ walked[i].t = walked[j].t /\ walked[i].p = walked[j].p
       /\ walked[i].e # walked[j].e
       /\ walked[i].p = Lookup(call.path)
       /\ entries[walked[i].t][walked[i].p] = walked[i].e

\* every File holds a string
AllStrings == \A e \in Ids : isFile(heap, e) => getContent(heap, e).t = "string"

\* C14 as claimed: in every state, after Files were constructed from a string,
\* from nothing or from a structured record and after writeFile / setContent
\* calls with any value, the content of every File is a string.
ContentIsString == AllStrings

\* C14 as amended: constructing a File from a string, from nothing or from a
\* structured record, and every operation other than a writeFile /
\* writeFileSync / setContent call that passes a value that is no string,
\* keeps the content of every File a string.
ContentStaysString ==
  [][(AllStrings /\ ~(call'.op \in Writes \cup {"setContent"} /\ call'.arg.t # "string"))
       => AllStrings']_vars

\* C14 witness: a File was constructed from a structured record after a write
\* of the string X to another File, and every File holds a string
RecordMadeString ==
  /\ call.op = "createFile" /\ call.arg.t = "object"
  /\ \E e \in Ids : isFile(heap, e) /\ getContent(heap, e) = Str(<<"X">>)
  /\ AllStrings

\* C15: the content of a File just constructed is the JSON text of a
\* structured record passed as content ('{"k":1}' for { k: 1 }), "" when no
\* content is passed, and the string passed otherwise.
FileCoercesByShape ==
  call.op = "createFile" =>
    LET c == getContent(heap, Len(heap))
    IN /\ call.arg = ObjK1 => c = Str(<<"{", "\"", "k", "\"", ":", "1", "}">>)
       /\ call.arg = Obj(<<>>) => c = Str(<<"{", "}">>)
       /\ call.arg.t = "undefined" => c = Str(<<>>)
       /\ call.arg.t = "string" => c = call.arg

\* C15 witness: createFile("a", { k: 1 }) made a File whose content is '{"k":1}'
RecordCoerced ==
  /\ call.op = "createFile" /\ call.arg = ObjK1
  /\ isFile(heap, Len(heap))
  /\ getContent(heap, Len(heap)).s = <<"{", "\"", "k", "\"", ":", "1", "}">>

\* C16: the sequence children() returned for a Directory is a live view: at
\* any later time, after addChild calls, it holds the children the Directory
\* then has, the earlier ones followed by the new ones.
ChildrenLive ==
  kept.op = "children" => kept.kids = getEntries(heap, kept.d)

\* C17: every key of listFiles() is a key of listAll(), and the two map it to
\* the same File (so that readFile of the path reads the File listFiles()
\* holds).
IndicesAgree ==
  \A t \in Trees : \A p \in DOMAIN getFiles(t) :
    /\ p \in DOMAIN entries[t]
    /\ entries[t][p] = getFiles(t)[p]

\* the index of the last "/" of the absolute path p
LastSlash(p) == CHOOSE i \in 1..Len(p) : p[i] = "/" /\ \A j \in (i + 1)..Len(p) : p[j] # "/"

\* the parent path of the absolute path p
Dirname(p) == IF LastSlash(p) = 1 THEN <<"/">> ELSE SubSeq(p, 1, LastSlash(p) - 1)

\* C18: for every key of listAll() other than the root path, the parent path
\* is a key too and maps to a Directory (so that readdir of the parent of a
\* path stat or readFile accepts fails neither with Not-Found nor Wrong-Kind).
ParentClosed ==
  \A t \in Trees : \A p \in DOMAIN entries[t] \ {Root} :
    /\ Dirname(p) \in DOMAIN entries[t]
    /\ isDirectory(heap, entries[t][Dirname(p)])

\* C19: once resetSpies(T2) has rebound the Filesystem, every later operation
\* resolves and mutates against T2, a resetSpies() without argument in
\* between included: a read fails or delivers as the entry of T2 at the path
\* decides, and a write succeeds exactly on a File of T2 and stores there.
RebindDurable ==
  rebound # 0 =>
    LET g == getEntry(rebound, call.path)
        found == g.ok /\ isFile(heap, g.ent)
    IN /\ call.op \in Reads \cup Writes => (call.outcome = "return" <=> found)
       /\ (call.op \in Reads /\ found) => call.result = getContent(heap, g.ent)
       /\ (call.op \in Writes /\ found) => getContent(heap, g.ent) = call.arg

====
